---- MODULE Spec2Model ----
(***************************************************************************)
(* A model of pyro/distributions/lkj.py: the transform from partial        *)
(* correlations to the Cholesky factor of a correlation matrix, its        *)
(* tanh-wrapped variant, and the LKJ prior built on it.                    *)
(*                                                                         *)
(* Numbers.  Tensor entries are reals in the source.  Here they are exact  *)
(* fixed-point numbers: the integer v stands for the real v / S.  The      *)
(* inputs are drawn from a grid on which every square root the transform   *)
(* takes is rational (3/5 and 4/5 are the legs of a 3-4-5 triangle), so    *)
(* Sqrt, Mul and Div below are exact on every value the model reaches and  *)
(* the model computes what the code computes in exact arithmetic.          *)
(* Floating-point rounding is outside the model.                           *)
(*                                                                         *)
(* eta and the Beta concentrations are kept doubled (eta2 = 2 * eta), so   *)
(* the half-integer steps of the source are integer steps here.            *)
(* Values of lgamma and log(pi) are kept symbolic.                         *)
(***************************************************************************)
EXTENDS Integers, Sequences, FiniteSets, TLC

VARIABLES
  tpc, kind, x, y, z, terr,          \* a caller of the transforms
  self, ctor, last, nCalls, nWrites, filled, \* a distribution instance and its caller
  cpc, clocal, cret                  \* threads inside lkj_constant

tvars == <<tpc, kind, x, y, z, terr>>
dvars == <<self, ctor, last, nCalls, nWrites, filled>>
cvars == <<cpc, clocal, cret>>
vars == <<tpc, kind, x, y, z, terr, self, ctor, last, nCalls, nWrites, filled,
          cpc, clocal, cret>>

---------------------------------------------------------------------------
(* Bounds of the model *)

\* largest matrix dimension the transforms are run on
MaxD == 5
\* longest vector whose entries are drawn from the grid with 0 in it
MaxFine == 6
\* largest matrix dimension of a distribution instance, and largest K of a call
MaxK == 4
\* largest doubled eta (eta up to MaxEta2 / 2)
MaxEta2 == 4
\* largest number of rows or columns of a matrix passed in from outside
MaxDim == 3
\* number of calls made on one instance
MaxCalls == 3
\* number of threads that enter lkj_constant at once
NThreads == 2

---------------------------------------------------------------------------
(* Exact fixed-point arithmetic *)

\* the integer that stands for 1.0
S == 5 ^ (MaxD - 1)
\* 1.0 at the scale of a product of two entries
One2 == S * S

\* -4/5 and 3/5: points of the open interval (-1, 1)
Vals == {0 - ((4 * S) \div 5), (3 * S) \div 5}
\* the points a vector of n entries is drawn from: short vectors also from 0
Grid(n) == IF n <= MaxFine THEN Vals \cup {0} ELSE Vals
\* the Beta draws b in (0, 1) with 2b - 1 in Grid(n), at scale 2 * S
BetaVals(n) == {v + S : v \in Grid(n)}

None == <<>>
Some(v) == <<v>>

Sq(a) == a * a
Mul(a, b) == (a * b) \div S
Div(a, b) == (a * S) \div b

\* the integer square root of n by Newton's iteration from r >= sqrt(n)
RECURSIVE Newton(_, _)
Newton(n, r) ==
  LET q == (r + n \div r) \div 2
  IN IF q >= r THEN r ELSE Newton(n, q)

\* the square root of a number at scale S * S, at scale S
Sqrt(n) == IF n = 0 THEN 0 ELSE Newton(n, S)

---------------------------------------------------------------------------
(* Tensors: a vector is a function on 0..n-1, a matrix has a shape and     *)
(* rows of entries, both indexed from 0 as in the source.                  *)

Size(v) == Cardinality(DOMAIN v)
Zeros(n) == [k \in 0..(n - 1) |-> 0]
Rows(m) == m.shape[1]
Cols(m) == m.shape[2]
Matrix(r, c, el) == [shape |-> <<r, c>>, el |-> el]
Filled(r, c, v) == Matrix(r, c, [i \in 0..(r - 1) |-> [j \in 0..(c - 1) |-> v]])
\* torch.cat of two vectors
Cat(a, b) == [k \in 0..(Size(a) + Size(b) - 1) |->
                IF k < Size(a) THEN a[k] ELSE b[k - Size(a)]]

Ok(v) == [err |-> "none", val |-> v]
Raise(e) == [err |-> e]

VectorSize(d) == (d * (d - 1)) \div 2

---------------------------------------------------------------------------
(* _PartialCorrToCorrLCholeskyTransform *)

\* D = (1 + sqrt(1 + 8 n)) / 2, or 0 when that is not a whole number
DimOf(n) ==
  LET r == Newton(1 + 8 * n, 1 + 8 * n)
  IN IF r * r = 1 + 8 * n THEN (1 + r) \div 2 ELSE 0

\* last_squared_y without the sum carried over from the earlier columns
LastSquaredNoCarry(lsy, el, D, j) ==
  [k \in 0..(D - 1 - j) |-> Sq(el[j + k][j - 1])]

\* last_squared_y = last_squared_y[..., 1:] + y[..., j:, (j-1)] ** 2
LastSquared(lsy, el, D, j) ==
  [k \in 0..(D - 1 - j) |-> lsy[k + 1] + Sq(el[j + k][j - 1])]

\* The loop over the columns j = 1 .. D-1.  el is y, src records for every
\* entry of y the index of x it was computed from (-1: none), i is the next
\* index of x to use and lsy is last_squared_y.
RECURSIVE CallLoop(_, _, _, _, _, _, _)

\* column j: the diagonal entry and the entries below it
CallColumn(xin, D, j, i, lsy, el, src) ==
  LET distance_to_copy == D - 1 - j
      el2 == [r \in 0..(D - 1) |-> [c \in 0..(D - 1) |->
               IF c = j /\ r = j THEN Sqrt(One2 - lsy[0])
               ELSE IF c = j /\ r > j
                    THEN Mul(xin[i + (r - j - 1)], Sqrt(One2 - lsy[r - j]))
                    ELSE el[r][c]]]
      src2 == [r \in 0..(D - 1) |-> [c \in 0..(D - 1) |->
                IF c = j /\ r > j THEN i + (r - j - 1) ELSE src[r][c]]]
  IN CallLoop(xin, D, j + 1, i + distance_to_copy, lsy, el2, src2)

CallLoop(xin, D, j, i, lsy, el, src) ==
  IF j > D - 1 THEN [el |-> el, src |-> src]
  ELSE CallColumn(xin, D, j, i, LastSquared(lsy, el, D, j), el, src)

\* y and src after column 0 is seeded and the loop has run
CallFill(xin, D) ==
  LET el0 == [r \in 0..(D - 1) |-> [c \in 0..(D - 1) |->
                IF r = 0 /\ c = 0 THEN S
                ELSE IF c = 0 THEN xin[r - 1] ELSE 0]]
      src0 == [r \in 0..(D - 1) |-> [c \in 0..(D - 1) |->
                 IF c = 0 /\ r >= 1 THEN r - 1 ELSE 0 - 1]]
  IN CallLoop(xin, D, 1, D - 1, Zeros(D), el0, src0)

PartialCorr_call(xin) ==
  LET D == DimOf(Size(xin))
  IN IF D = 0 THEN Raise("ValueError")
     ELSE Ok(Matrix(D, D, CallFill(xin, D).el))

\* which index of x forward puts at row r, column c of a D x D result
CallSource(D) == CallFill(Zeros(VectorSize(D)), D).src

\* y[i, 0:(i-1)].pow(2).cumsum(-1) at position k
RECURSIVE CumSumSq(_, _)
CumSumSq(row, k) == IF k < 0 THEN 0 ELSE CumSumSq(row, k - 1) + Sq(row[k])

\* for i in range(2, D): one row of z_tri per step
RECURSIVE InverseRows(_, _, _, _)
InverseRows(yin, D, i, z_tri) ==
  IF i >= D THEN z_tri
  ELSE InverseRows(yin, D, i + 1,
         [z_tri EXCEPT ![i - 2] =
            [k \in 0..(D - 3) |->
               IF k <= i - 2
               THEN Div(yin.el[i][1 + k], Sqrt(One2 - CumSumSq(yin.el[i], k)))
               ELSE z_tri[i - 2][k]]])

\* InverseStack reading z_tri by rows instead of by columns
RECURSIVE InverseStackByRows(_, _, _, _)
InverseStackByRows(z_tri, D, j, acc) ==
  IF j >= D - 2 THEN acc
  ELSE InverseStackByRows(z_tri, D, j + 1,
         Cat(acc, [k \in 0..j |-> z_tri[j][k]]))

\* for j in range(D - 2): z_stack.append(z_tri[..., j:, j]), then torch.cat
RECURSIVE InverseStack(_, _, _, _)
InverseStack(z_tri, D, j, acc) ==
  IF j >= D - 2 THEN acc
  ELSE InverseStack(z_tri, D, j + 1,
         Cat(acc, [k \in 0..(D - 3 - j) |-> z_tri[j + k][j]]))

PartialCorr_inverse(yin) ==
  IF Rows(yin) # Cols(yin) THEN Raise("ValueError")
  ELSE
    LET D == Cols(yin)
    IN IF D - 2 < 0 THEN Raise("RuntimeError")   \* torch.zeros of a negative size
       ELSE
         LET z_tri == InverseRows(yin, D, 2,
                        [r \in 0..(D - 3) |-> [c \in 0..(D - 3) |-> 0]])
             first == [k \in 0..(D - 2) |-> yin.el[1 + k][0]]
         IN Ok(InverseStack(z_tri, D, 0, first))

---------------------------------------------------------------------------
(* _CorrCholesky *)

\* one over the threshold 1e-6 of the check
TolInv == 1000000

\* torch's constraints.lower_cholesky.check: the matrix equals its lower
\* triangle and every diagonal entry is above 0
LowerCholeskyCheck(m) ==
  /\ \A r \in 0..(Rows(m) - 1), c \in 0..(Cols(m) - 1) :
       (IF c <= r THEN m.el[r][c] ELSE 0) = m.el[r][c]
  /\ \A r \in 0..(Rows(m) - 1) : m.el[r][r] > 0

\* value.norm(dim=-1).sub(1) < 1e-6 for one row.  The norm is not negative,
\* so this is sumsq < (1 + 1e-6)^2, that is sumsq - 1 < 2e-6 + 1e-12.  At
\* scale S * S the left side is a whole number and 2e-6 * S * S is at least
\* 1/32 away from one (S is a power of 5), so the 1e-12 decides nothing.
NormSubOneBelowTol(row) ==
  CumSumSq(row, Size(row) - 1) - One2 <= (2 * One2) \div TolInv

\* unit_norm_row = (...).min(-1)[0]; return lower_cholesky.check(value) & unit_norm_row
CorrCholesky_check(m) ==
  LET unit_norm_row == \A r \in 0..(Rows(m) - 1) : NormSubOneBelowTol(m.el[r])
  IN LowerCholeskyCheck(m) /\ unit_norm_row

---------------------------------------------------------------------------
(* UnconstrainedToCorrLCholeskyTransform *)

\* log((1 + z) / (1 - z)) / 2, kept as the fraction under the logarithm
Atanh(v) == [num |-> S + v, den |-> S - v]

Unconstrained_inverse(yin) ==
  LET Wrap(r) == IF r.err # "none" THEN r
                 ELSE Ok([k \in DOMAIN r.val |-> Atanh(r.val[k])])
  IN Wrap(PartialCorr_inverse(yin))

---------------------------------------------------------------------------
(* CorrLCholeskyLKJPrior.__init__ *)

\* for j in range(k+1, d): concentrations[..., i] = alpha; i += 1
RECURSIVE CtorInner(_, _, _, _, _)
CtorInner(conc, i, alpha2, j, d) ==
  IF j >= d THEN [conc |-> conc, i |-> i]
  ELSE CtorInner([conc EXCEPT ![i] = alpha2], i + 1, alpha2, j + 1, d)

\* CtorOuter lowering alpha after the entries of a block are written
RECURSIVE CtorOuterLate(_, _, _, _, _)
CtorOuterLate(conc, i, alpha2, k, d) ==
  IF k >= d - 1 THEN conc
  ELSE LET r == CtorInner(conc, i, alpha2, k + 1, d)
       IN CtorOuterLate(r.conc, r.i, alpha2 - 1, k + 1, d)

\* for k in range(d-1): alpha -= .5; ...
RECURSIVE CtorOuter(_, _, _, _, _)
CtorOuter(conc, i, alpha2, k, d) ==
  IF k >= d - 1 THEN conc
  ELSE LET a == alpha2 - 1
           r == CtorInner(conc, i, a, k + 1, d)
       IN CtorOuter(r.conc, r.i, a, k + 1, d)

\* the concentrations laid out row by row of the matrix
ConcentrationsByRows(d, eta2) ==
  [i \in 0..(VectorSize(d) - 1) |->
     LET r == CHOOSE r \in 1..(d - 1) : VectorSize(r) <= i /\ i < VectorSize(r + 1)
     IN eta2 + (d - 1) - ((i - VectorSize(r)) + 1)]

\* the concentrations (doubled) built for dimension d and doubled eta;
\* the buffer starts with arbitrary contents, every entry is then written
Concentrations(d, eta2) ==
  CtorOuter(Zeros(VectorSize(d)), 0, eta2 + (d - 1), 0, d)

\* the name the constructor raises for eta <= 0 is bound nowhere in the
\* module, so evaluating the raise statement fails with a NameError
CtorRaised == "NameError"

Construct(d, eta2) ==
  IF eta2 <= 0 THEN Raise(CtorRaised)
  ELSE LET concentrations == Concentrations(d, eta2)
       IN Ok([_generating_distribution |->
                 [concentration1 |-> concentrations,
                  concentration0 |-> concentrations],
              _eta |-> eta2,
              _d |-> d,
              _lkj_constant |-> None,
              _event_shape |-> <<d, d>>])

---------------------------------------------------------------------------
(* CorrLCholeskyLKJPrior.lkj_constant and log_prob *)

\* torch.linspace(start, end, steps) for the whole-number steps used here
Linspace(start, end, steps) ==
  [m \in 0..(steps - 1) |->
     IF steps = 1 THEN start
     ELSE start + (m * (end - start)) \div (steps - 1)]

\* constant = torch.lgamma(eta.add(0.5 * Km1)).mul(Km1): Km1 times lgamma of
\* arg2 / 2, with nothing subtracted yet
LkjLead(eta2, K) ==
  [lead |-> [coef |-> K - 1, arg2 |-> eta2 + (K - 1)], minus |-> <<>>]

\* LkjTerms with the last point of the linspace left out
LkjTermsShort(eta2, K) ==
  LET Km1 == K - 1
      k == Linspace(1, Km1 - 1, Km1 - 1)
  IN [m \in DOMAIN k |-> [pi |-> k[m], arg2 |-> eta2 + (Km1 - k[m])]]

\* k.mul(log(pi) * 0.5) + lgamma(eta.add(0.5 * (Km1 - k))), one term for every
\* k of the linspace: pi times log(pi)/2 plus lgamma of arg2 / 2
LkjTerms(eta2, K) ==
  LET Km1 == K - 1
      k == Linspace(1, Km1, Km1)
  IN [m \in DOMAIN k |-> [pi |-> k[m], arg2 |-> eta2 + (Km1 - k[m])]]

\* constant -= (...).sum()
LkjSubtract(constant, eta2, K) ==
  [constant EXCEPT !.minus = Cat(constant.minus, LkjTerms(eta2, K))]

\* lkj_constant without the early return of the cached value
LkjConstantNoCache(inst, eta2, K) ==
  LET constant == LkjSubtract(LkjLead(eta2, K), eta2, K)
  IN [ret |-> constant,
      inst |-> [inst EXCEPT !._lkj_constant = Some(constant)],
      wrote |-> TRUE]

\* lkj_constant(self, eta, K), run without interruption: what it returns, the
\* instance afterwards and whether it wrote the cache
LkjConstant(inst, eta2, K) ==
  IF inst._lkj_constant # None
  THEN [ret |-> inst._lkj_constant[1], inst |-> inst, wrote |-> FALSE]
  ELSE LET constant == LkjSubtract(LkjLead(eta2, K), eta2, K)
       IN [ret |-> constant,
           inst |-> [inst EXCEPT !._lkj_constant = Some(constant)],
           wrote |-> TRUE]

\* log_prob passing the size of its argument as K
LogProbArgsFromShape(inst, m) == [eta |-> inst._eta, K |-> Cols(m)]

\* eta = self._eta; lp = self.lkj_constant(eta, self._d)
LogProbArgs(inst, m) == [eta |-> inst._eta, K |-> inst._d]

\* a.expand_as(b) for vectors: the size of a must be that of b, or 1
ExpandAs(a, n) ==
  IF Size(a) = n THEN Ok(a)
  ELSE IF Size(a) = 1 THEN Ok([k \in 0..(n - 1) |-> a[0]])
  ELSE Raise("RuntimeError")

\* The rest of log_prob, given the constant lp.  m is the argument: its shape
\* and an id that stands for its entries.  The value returned is lp plus the
\* sum over k of coef[k] * log(m[k, k]).
LogProbValue(inst, m, lp) ==
  LET Km1 == Cols(m) - 1
      nDiag == (IF Rows(m) < Cols(m) THEN Rows(m) ELSE Cols(m)) - 1
      lin == ExpandAs(Linspace(Km1 - 1, 0, Km1), nDiag)
  IN IF lin.err # "none" THEN lin
     ELSE Ok([lp |-> lp, of |-> m.id,
              coef |-> [k \in 0..(nDiag - 1) |-> lin.val[k] + (inst._eta - 2)]])


---------------------------------------------------------------------------
(* Idle values of the variables of the callers that are not running *)

TIdle ==
  /\ tpc = "idle" /\ kind = "none" /\ x = <<>> /\ y = None /\ z = None
  /\ terr = "none"

CIdle ==
  /\ cpc = <<>> /\ clocal = <<>> /\ cret = <<>>

---------------------------------------------------------------------------
(* A caller of the transforms: it holds a vector x (kind "x"), a vector of *)
(* Beta draws for a constructed instance (kind "beta"), or a matrix that   *)
(* is not square (kind "matrix"), and applies forward, sample and the two  *)
(* inverses; or it holds a square matrix of its own making (kind           *)
(* "candidate") and asks whether it is in the support.                     *)

\* eta of the instance that is sampled from (doubled): eta = 1
SampleEtas == {2}

\* square matrices with one value on the diagonal, one below it and one
\* above it: 1, 3/5, 0 or -4/5 on the diagonal, 0 or 3/5 above
Candidates ==
  {Matrix(d, d, [r \in 0..(d - 1) |-> [c \in 0..(d - 1) |->
       IF r = c THEN dv ELSE IF c < r THEN lv ELSE uv]]) :
     d \in 1..MaxDim, dv \in Vals \cup {0, S}, lv \in Vals \cup {0},
     uv \in {0, (3 * S) \div 5}}

TInit ==
  /\ tpc = "start" /\ z = None /\ terr = "none"
  /\ ctor = [state |-> "none"] /\ last = [op |-> "none"]
  /\ nCalls = 0 /\ nWrites = 0 /\ filled = None
  /\ CIdle
  /\ \/ /\ kind = "x"
        /\ \E n \in 0..VectorSize(MaxD) : x \in [0..(n - 1) -> Grid(n)]
        /\ y = None /\ self = None
     \/ /\ kind = "beta"
        /\ \E d \in 1..MaxD, e \in SampleEtas :
             /\ self = Some(Construct(d, e).val)
             /\ x \in [0..(VectorSize(d) - 1) -> BetaVals(VectorSize(d))]
        /\ y = None
     \/ /\ kind = "matrix"
        /\ \E r \in 1..MaxDim, c \in 1..MaxDim, v \in Vals :
             r # c /\ y = Some(Filled(r, c, v))
        /\ x = <<>> /\ self = None
     \/ /\ kind = "candidate"
        /\ \E m \in Candidates : y = Some(m)
        /\ x = <<>> /\ self = None

\* y = transform(x)
Call ==
  /\ tpc = "start" /\ kind = "x"
  /\ \E r \in {PartialCorr_call(x)} :
        /\ terr' = r.err
        /\ y' = IF r.err = "none" THEN Some(r.val) ELSE None
  /\ tpc' = "called"
  /\ UNCHANGED <<kind, x, z>> /\ UNCHANGED dvars /\ UNCHANGED cvars

\* sample(): the Beta draws, times 2, minus 1, through the transform
Sample ==
  /\ tpc = "start" /\ kind = "beta"
  /\ \E r \in {PartialCorr_call([k \in DOMAIN x |-> x[k] - S])} :
        /\ terr' = r.err
        /\ y' = IF r.err = "none" THEN Some(r.val) ELSE None
  /\ tpc' = "sampled"
  /\ UNCHANGED <<kind, x, z>> /\ UNCHANGED dvars /\ UNCHANGED cvars

HasMatrix ==
  \/ tpc = "called" /\ terr = "none"
  \/ tpc = "start" /\ kind = "matrix"

\* x = transform._inverse(y)
Inverse ==
  /\ HasMatrix
  /\ \E r \in {PartialCorr_inverse(y[1])} :
        /\ terr' = r.err
        /\ z' = IF r.err = "none" THEN Some(r.val) ELSE None
  /\ tpc' = "inverted"
  /\ UNCHANGED <<kind, x, y>> /\ UNCHANGED dvars /\ UNCHANGED cvars

\* u = UnconstrainedToCorrLCholeskyTransform()._inverse(y)
UInverse ==
  /\ HasMatrix
  /\ \E r \in {Unconstrained_inverse(y[1])} :
        /\ terr' = r.err
        /\ z' = IF r.err = "none" THEN Some(r.val) ELSE None
  /\ tpc' = "uninverted"
  /\ UNCHANGED <<kind, x, y>> /\ UNCHANGED dvars /\ UNCHANGED cvars

\* corr_cholesky_constraint.check(y), on a result of the transform or on a
\* candidate
CheckSupport ==
  /\ \/ tpc \in {"called", "sampled"} /\ terr = "none"
     \/ tpc = "start" /\ kind = "candidate"
  /\ z' = Some(CorrCholesky_check(y[1]))
  /\ tpc' = "checked"
  /\ UNCHANGED <<kind, x, y, terr>> /\ UNCHANGED dvars /\ UNCHANGED cvars

TNext == Call \/ Sample \/ Inverse \/ UInverse \/ CheckSupport

SpecT == TInit /\ [][TNext]_vars

---------------------------------------------------------------------------
(* A caller of the distribution: it constructs one instance from (d, eta)  *)
(* and then calls log_prob and lkj_constant on it, one call at a time.     *)

\* the matrices handed to log_prob: every shape, two matrices of each
LogProbInputs ==
  {[shape |-> <<r, c>>, id |-> t] : r \in 1..MaxDim, c \in 1..MaxDim, t \in 1..2}

DInit ==
  /\ TIdle /\ CIdle
  /\ self = None /\ last = [op |-> "none"]
  /\ nCalls = 0 /\ nWrites = 0 /\ filled = None
  /\ \E d \in 1..MaxK, e \in (0 - 2)..MaxEta2 :
       ctor = [state |-> "pending", d |-> d, eta |-> e]

\* CorrLCholeskyLKJPrior(d, eta)
New ==
  /\ ctor.state = "pending"
  /\ \E r \in {Construct(ctor.d, ctor.eta)} :
       IF r.err # "none"
       THEN /\ ctor' = [ctor EXCEPT !.state = "failed"] @@ [err |-> r.err]
            /\ self' = None
       ELSE /\ ctor' = [ctor EXCEPT !.state = "ok"]
            /\ self' = Some(r.val)
  /\ UNCHANGED <<last, nCalls, nWrites, filled>>
  /\ UNCHANGED tvars /\ UNCHANGED cvars

\* self.log_prob(m)
LogProb ==
  /\ self # None /\ nCalls < MaxCalls
  /\ \E m \in LogProbInputs :
       \E a \in {LogProbArgs(self[1], m)} :
         \E c \in {LkjConstant(self[1], a.eta, a.K)} :
           \E r \in {LogProbValue(self[1], m, c.ret)} :
             /\ self' = Some(c.inst)
             /\ nWrites' = IF c.wrote THEN nWrites + 1 ELSE nWrites
             /\ filled' = IF c.wrote THEN Some(<<a.eta, a.K>>) ELSE filled
             /\ last' = [op |-> "log_prob", m |-> m, lp |-> c.ret,
                         err |-> r.err,
                         ret |-> IF r.err = "none" THEN Some(r.val) ELSE None]
  /\ nCalls' = nCalls + 1
  /\ UNCHANGED ctor /\ UNCHANGED tvars /\ UNCHANGED cvars

\* self.lkj_constant(eta, K), called from outside with any arguments
LkjConstantCall ==
  /\ self # None /\ nCalls < MaxCalls
  /\ \E e \in 1..MaxEta2, K \in 1..MaxK :
       \E c \in {LkjConstant(self[1], e, K)} :
         /\ self' = Some(c.inst)
         /\ nWrites' = IF c.wrote THEN nWrites + 1 ELSE nWrites
         /\ filled' = IF c.wrote THEN Some(<<e, K>>) ELSE filled
         /\ last' = [op |-> "lkj_constant", eta |-> e, K |-> K,
                     err |-> "none", ret |-> Some(c.ret)]
  /\ nCalls' = nCalls + 1
  /\ UNCHANGED ctor /\ UNCHANGED tvars /\ UNCHANGED cvars

Next == New \/ LogProb \/ LkjConstantCall

Spec == DInit /\ [][Next]_vars

\* the callers that only construct and call log_prob
LogProbNext == New \/ LogProb

SpecLogProb == DInit /\ [][LogProbNext]_vars

---------------------------------------------------------------------------
(* Threads that call log_prob on one fresh instance at the same time.  A   *)
(* thread is followed from its call of lkj_constant to the return of that  *)
(* call, one statement of lkj_constant per step.                           *)

Threads == 1..NThreads

CInit ==
  /\ TIdle
  /\ \E d \in 1..MaxK, e \in 1..MaxEta2 :
       /\ ctor = [state |-> "ok", d |-> d, eta |-> e]
       /\ self = Some(Construct(d, e).val)
  /\ last = [op |-> "none"] /\ nCalls = 0 /\ nWrites = 0 /\ filled = None
  /\ cpc = [t \in Threads |-> "idle"]
  /\ clocal = [t \in Threads |-> None]
  /\ cret = [t \in Threads |-> None]

CFrame == UNCHANGED <<ctor, last, nCalls>> /\ UNCHANGED tvars

\* eta = self._eta; self.lkj_constant(eta, self._d)
Enter(t) ==
  /\ cpc[t] = "idle"
  /\ \E a \in {LogProbArgs(self[1], [shape |-> <<self[1]._d, self[1]._d>>, id |-> t])} :
       clocal' = [clocal EXCEPT ![t] = Some([eta |-> a.eta, K |-> a.K])]
  /\ cpc' = [cpc EXCEPT ![t] = "check"]
  /\ UNCHANGED <<self, nWrites, filled, cret>> /\ CFrame

\* if self._lkj_constant is not None
Check(t) ==
  /\ cpc[t] = "check"
  /\ cpc' = [cpc EXCEPT ![t] =
               IF self[1]._lkj_constant # None THEN "hit" ELSE "lead"]
  /\ UNCHANGED <<self, nWrites, filled, clocal, cret>> /\ CFrame

\* return self._lkj_constant
Hit(t) ==
  /\ cpc[t] = "hit"
  /\ cret' = [cret EXCEPT ![t] = self[1]._lkj_constant]
  /\ cpc' = [cpc EXCEPT ![t] = "done"]
  /\ UNCHANGED <<self, nWrites, filled, clocal>> /\ CFrame

\* Lead storing its unfinished value in the cache as well
LeadPublished(t) ==
  /\ cpc[t] = "lead"
  /\ \E c \in {LkjLead(clocal[t][1].eta, clocal[t][1].K)} :
       /\ clocal' = [clocal EXCEPT ![t] = Some(clocal[t][1] @@ [constant |-> c])]
       /\ self' = Some([self[1] EXCEPT !._lkj_constant = Some(c)])
  /\ cpc' = [cpc EXCEPT ![t] = "subtract"]
  /\ UNCHANGED <<nWrites, filled, cret>> /\ CFrame

\* Km1 = K - 1; constant = torch.lgamma(eta.add(0.5 * Km1)).mul(Km1)
Lead(t) ==
  /\ cpc[t] = "lead"
  /\ clocal' = [clocal EXCEPT ![t] =
       Some(clocal[t][1] @@
            [constant |-> LkjLead(clocal[t][1].eta, clocal[t][1].K)])]
  /\ cpc' = [cpc EXCEPT ![t] = "subtract"]
  /\ UNCHANGED <<self, nWrites, filled, cret>> /\ CFrame

\* k = torch.linspace(...); constant -= (...).sum()
Subtract(t) ==
  /\ cpc[t] = "subtract"
  /\ clocal' = [clocal EXCEPT ![t] =
       Some([clocal[t][1] EXCEPT !.constant =
               LkjSubtract(@, clocal[t][1].eta, clocal[t][1].K)])]
  /\ cpc' = [cpc EXCEPT ![t] = "write"]
  /\ UNCHANGED <<self, nWrites, filled, cret>> /\ CFrame

\* self._lkj_constant = constant
Write(t) ==
  /\ cpc[t] = "write"
  /\ self' = Some([self[1] EXCEPT !._lkj_constant = Some(clocal[t][1].constant)])
  /\ nWrites' = nWrites + 1
  /\ filled' = Some(<<clocal[t][1].eta, clocal[t][1].K>>)
  /\ cpc' = [cpc EXCEPT ![t] = "return"]
  /\ UNCHANGED <<clocal, cret>> /\ CFrame

\* return constant
Return(t) ==
  /\ cpc[t] = "return"
  /\ cret' = [cret EXCEPT ![t] = Some(clocal[t][1].constant)]
  /\ cpc' = [cpc EXCEPT ![t] = "done"]
  /\ UNCHANGED <<self, nWrites, filled, clocal>> /\ CFrame

CNext ==
  \E t \in Threads :
    \/ Enter(t) \/ Check(t) \/ Hit(t) \/ Lead(t)
    \/ Subtract(t) \/ Write(t) \/ Return(t)

SpecC == CInit /\ [][CNext]_vars

---------------------------------------------------------------------------
(* Properties of the transforms *)

\* the vector the transform was applied to, at scale S
Applied == IF kind = "beta" THEN [k \in DOMAIN x |-> x[k] - S] ELSE x

LowerTriangular(m) ==
  \A r \in 0..(Rows(m) - 1), c \in 0..(Cols(m) - 1) : c > r => m.el[r][c] = 0
PositiveDiagonal(m) ==
  \A r \in 0..(Rows(m) - 1) : m.el[r][r] > 0
RECURSIVE RowSumSq(_, _)
RowSumSq(row, n) == IF n = 0 THEN 0 ELSE RowSumSq(row, n - 1) + Sq(row[n - 1])
UnitRows(m) ==
  \A r \in 0..(Rows(m) - 1) : RowSumSq(m.el[r], Cols(m)) = One2

\* C1: for every d >= 2 and every x in (-1,1)^(d(d-1)/2), inverse(forward(x))
\* is a vector of the same length as x whose i-th entry is x[i].
C1_RoundTrip ==
  (tpc = "inverted" /\ kind = "x" /\ DimOf(Size(x)) >= 2)
    => (terr = "none" /\ z # None /\ Size(z[1]) = Size(x)
        /\ \A i \in DOMAIN x : z[1][i] = x[i])

\* a 5 x 5 round trip in which x[6] and x[7] differ: these are the first two
\* coordinates that reading z_tri by rows instead of by columns would swap
C1_Witness ==
  /\ tpc = "inverted" /\ kind = "x" /\ Size(x) = 10
  /\ x[6] # x[7] /\ x[3] # x[4]
  /\ z = Some(x)

\* C2: for every d >= 1 and x inside (-1,1), forward(x) is a d x d matrix,
\* lower-triangular, with a positive diagonal and rows of squared norm 1,
\* and so is every matrix that sample returns.
C2_Codomain ==
(tpc \in {"called", "sampled"} /\ terr = "none")
    => LET m == y[1]
           d == IF kind = "beta" THEN self[1]._d ELSE DimOf(Size(x))
       IN /\ m.shape = <<d, d>>
          /\ LowerTriangular(m) /\ PositiveDiagonal(m) /\ UnitRows(m)

\* a sampled 4 x 4 factor with no zero below the diagonal
C2_Witness ==
  /\ tpc = "sampled" /\ kind = "beta" /\ terr = "none" /\ Rows(y[1]) = 4
  /\ \A r \in 1..3 : \A c \in 0..(r - 1) : y[1].el[r][c] # 0
  /\ UnitRows(y[1])

\* |norm - 1| < 1e-6 for every row, at scale S * S (see NormSubOneBelowTol)
RowsWithinTol(m) ==
  \A r \in 0..(Rows(m) - 1) :
    LET e == RowSumSq(m.el[r], Cols(m)) - One2
    IN e <= (2 * One2) \div TolInv /\ 0 - e <= (2 * One2) \div TolInv

\* C11: the support check accepts a square matrix exactly when it is
\* lower-triangular with a positive diagonal and every row's norm is within
\* 1e-6 of 1, above and below; a matrix with a row norm below 1 - 1e-6, such
\* as a 1 x 1 matrix with an entry below 1, is rejected.
C11_SupportCheck ==
  tpc = "checked"
    => z[1] = (LowerTriangular(y[1]) /\ PositiveDiagonal(y[1])
               /\ RowsWithinTol(y[1]))

\* C12: at d = 1 forward of the empty vector returns the 1 x 1 matrix [1]
\* without error, and inverse of it returns the empty vector without error.
C12_DegenerateDimension ==
  (kind = "x" /\ Size(x) = 0)
    => /\ tpc = "called" => (terr = "none" /\ y = Some(Filled(1, 1, S)))
       /\ tpc = "inverted" => (terr = "none" /\ z = Some(x))

---------------------------------------------------------------------------
(* Properties of the distribution *)

\* what a constant is made of: its leading term, the set of the terms
\* subtracted from it and how many they are
Shape(c) ==
  [lead |-> c.lead,
   terms |-> {c.minus[m] : m \in DOMAIN c.minus},
   n |-> Size(c.minus)]

\* (K-1) * lgamma(eta + (K-1)/2) minus one term
\* k * log(pi)/2 + lgamma(eta + (K-1-k)/2) for every k in 1..top
NormalizerUpTo(eta2, K, top) ==
  [lead |-> [coef |-> K - 1, arg2 |-> eta2 + (K - 1)],
   terms |-> {[pi |-> k, arg2 |-> eta2 + (K - 1 - k)] : k \in 1..top},
   n |-> Cardinality(1..top)]

Normalizer(eta2, K) == NormalizerUpTo(eta2, K, K - 1)

Cache == self[1]._lkj_constant

\* C3: in a series of log_prob calls on one instance the cache goes from
\* absent to a value on the first call, is written once and never again, and
\* every call adds the same constant, the one that belongs to the eta and d
\* the instance was constructed with.
C3_ConstantStable ==
  self # None =>
    /\ nCalls = 0 => (Cache = None /\ nWrites = 0)
    /\ nCalls >= 1 =>
         /\ nWrites = 1
         /\ Cache # None
         /\ Shape(Cache[1]) = Normalizer(ctor.eta, ctor.d)
         /\ last.op = "log_prob"
         /\ Shape(last.lp) = Normalizer(ctor.eta, ctor.d)
         /\ last.ret # None => last.ret[1].lp = Cache[1]

\* a third call, on a matrix whose size is not the instance's d
C3_Witness ==
  /\ self # None /\ nCalls = 3 /\ nWrites = 1 /\ ctor.d = 4
  /\ last.op = "log_prob" /\ last.m.shape = <<2, 2>> /\ last.ret # None
  /\ Shape(last.ret[1].lp) = Normalizer(ctor.eta, 4)

\* C4: a call lkj_constant(eta', K') returns the normalizer for (eta', K'),
\* whatever the arguments of the call that filled the cache were.
C4_Recomputed ==
  (self # None /\ last.op = "lkj_constant")
    => Shape(last.ret[1]) = Normalizer(last.eta, last.K)

\* C5: constructing with eta <= 0 fails with a value error, raised before a
\* generating distribution is built, and leaves no instance.
C5_ValidationError ==
  (ctor.state # "pending" /\ ctor.eta <= 0)
    => (ctor.state = "failed" /\ ctor.err = "ValueError" /\ self = None)

\* C6: CorrelationTransform.inverse, UnconstrainedTransform.inverse and
\* log_prob each raise an error, and return nothing, for a matrix that is
\* not square.
C6_NonSquareRejected ==
  /\ (tpc \in {"inverted", "uninverted"} /\ Rows(y[1]) # Cols(y[1]))
       => (terr # "none" /\ z = None)
  /\ (last.op = "log_prob" /\ last.m.shape[1] # last.m.shape[2])
       => (last.err # "none" /\ last.ret = None)

Concentration == self[1]._generating_distribution.concentration1

\* C7 as stated: for d = 3 and eta = 1.0 the concentrations are
\* [1.5, 1.0, 1.5].
C7_AsStated ==
  (self # None /\ self[1]._d = 3 /\ self[1]._eta = 2)
    => Concentration = [i \in 0..2 |-> IF i = 1 THEN 2 ELSE 3]

\* C7: for d = 3 and eta = 1.0 the concentrations are [1.5, 1.5, 1.0], in
\* index order 0, 1, 2.
C7_Concentrations ==
  (self # None /\ self[1]._d = 3 /\ self[1]._eta = 2)
    => /\ Concentration = [i \in 0..2 |-> IF i = 2 THEN 2 ELSE 3]
       /\ self[1]._generating_distribution.concentration0 = Concentration

C7_Witness ==
  /\ self # None /\ self[1]._d = 3 /\ self[1]._eta = 2
  /\ Concentration[0] = 3 /\ Concentration[2] = 2

\* C8: for d >= 2 and eta > 0 there are d(d-1)/2 concentrations, and if
\* forward puts x[i] in column k of y then concentration i is
\* eta + (d-1)/2 - (k+1)/2 (here doubled: 2 eta + (d-1) - (k+1)).
C8_Layout ==
  (self # None /\ self[1]._d >= 2)
    => LET d == self[1]._d
           src == CallSource(d)
       IN /\ Size(Concentration) = VectorSize(d)
          /\ \A i \in DOMAIN Concentration :
               /\ \E r \in 0..(d - 1), k \in 0..(d - 2) : src[r][k] = i
               /\ \A r \in 0..(d - 1), k \in 0..(d - 1) :
                    src[r][k] = i
                      => Concentration[i] = self[1]._eta + (d - 1) - (k + 1)

\* a 4 x 4 instance, where x[2] belongs to column 0 and x[3] to column 1
C8_Witness ==
  /\ self # None /\ self[1]._d = 4 /\ self[1]._eta = 3
  /\ CallSource(4)[3][0] = 2 /\ CallSource(4)[2][1] = 3
  /\ Concentration[2] = 5 /\ Concentration[3] = 4

\* C9: with threads racing through lkj_constant on a fresh instance, every
\* call returns the constant of the instance's eta and d and the cache, once
\* written, holds it; nothing unfinished is seen.
C9_BenignRace ==
  /\ \A t \in DOMAIN cret :
       cret[t] # None => Shape(cret[t][1]) = Normalizer(ctor.eta, ctor.d)
  /\ (DOMAIN cret # {} /\ Cache # None)
       => Shape(Cache[1]) = Normalizer(ctor.eta, ctor.d)

\* two threads have both computed and written, and both calls are over
C9_Witness ==
  /\ DOMAIN cret # {} /\ nWrites >= 2 /\ ctor.d >= 3
  /\ \A t \in DOMAIN cret : cpc[t] = "done" /\ cret[t] = Cache

\* C10 as stated: the sum subtracted has one term for each k in 1..d-2.
C10_AsStated ==
  (self # None /\ filled # None)
    => Shape(Cache[1]) = NormalizerUpTo(filled[1][1], filled[1][2], filled[1][2] - 2)

\* C10: the constant is (d-1) * lgamma(eta + (d-1)/2) minus a sum that has
\* one term k * log(pi)/2 + lgamma(eta + (d-1-k)/2) for each k in 1..d-1 and
\* no other: d-1 terms, the last of them with lgamma(eta).
C10_Shape ==
  (self # None /\ filled # None)
    => Shape(Cache[1]) = NormalizerUpTo(filled[1][1], filled[1][2], filled[1][2] - 1)

C10_Witness ==
  /\ self # None /\ filled = Some(<<2, 4>>)
  /\ Size(Cache[1].minus) = 3
  /\ [pi |-> 3, arg2 |-> 2] \in Shape(Cache[1]).terms

====
